---- MODULE Spec2Model ----
(***************************************************************************)
(* A model of src/pr3/assembler.py: a two-pass assembler that reads a      *)
(* line-oriented file of JSON commands, builds the IR list, translates it  *)
(* into 8-byte little-endian instruction word pairs and writes them to a   *)
(* binary file, optionally hex-dumping the written file.                   *)
(*                                                                         *)
(* Python integers are unbounded.  An integer v is represented by two      *)
(* limbs, [hi |-> h, lo |-> l] with 0 <= l < 2^16 and v = h * 2^16 + l     *)
(* (h carries the sign, as in two's complement), so that 32-bit words and  *)
(* operands wider than 32 bits are both representable.                     *)
(***************************************************************************)
EXTENDS Integers, Sequences, FiniteSets, TLC

VARIABLES
    lines,          \* the input file: the sequence of its text lines
    input_exists,   \* whether open(input_file_path) succeeds
    writable,       \* whether open(output_file_path, 'wb') succeeds
    test_mode,      \* the --test flag
    file0,          \* the output file as it was before the run
    file,           \* the output file: [exists, data]
    pos,            \* number of input lines consumed (line_num - 1)
    ir_list,        \* the IR list built by assemble
    idx,            \* number of IR commands translate has encoded
    binary_data,    \* the bytearray of translate_ir_to_machine_code
    stdout,         \* what was printed, in order
    err,            \* the failure that ended the run, "none" if none
    pc,             \* where the run is
    written,        \* whether this run has written the output file
    run,            \* 1: the run on the input; 2: the re-run without the 'cmd'-less lines
    first           \* the result of run 1, recorded when run 2 starts

vars == <<lines, input_exists, writable, test_mode, file0, file, pos, ir_list,
          idx, binary_data, stdout, err, pc, written, run, first>>

----------------------------------------------------------------------------
(* Bounds of the model *)

\* the longest input file, in lines
MaxLines == 3
\* the longest IR list handed to the encoder when it is checked on its own
MaxIR == 1

----------------------------------------------------------------------------
(* Integers *)

Limb == 256 * 256

Big(h, l) == [hi |-> h, lo |-> l]

FromInt(n) == Big(n \div Limb, n % Limb)

Zero == FromInt(0)

\* Python's a & b on two's-complement integers of any sign
RECURSIVE BitAnd(_, _)
BitAnd(a, b) ==
    IF a = 0 \/ b = 0 THEN 0
    ELSE IF a = -1 THEN b
    ELSE IF b = -1 THEN a
    ELSE (a % 2) * (b % 2) + 2 * BitAnd(a \div 2, b \div 2)

\* Python's a | b
RECURSIVE BitOr(_, _)
BitOr(a, b) ==
    IF a = 0 THEN b
    ELSE IF b = 0 THEN a
    ELSE IF a = -1 \/ b = -1 THEN -1
    ELSE (IF a % 2 = 1 \/ b % 2 = 1 THEN 1 ELSE 0) + 2 * BitOr(a \div 2, b \div 2)

And(x, y) == Big(BitAnd(x.hi, y.hi), BitAnd(x.lo, y.lo))

Or(x, y) == Big(BitOr(x.hi, y.hi), BitOr(x.lo, y.lo))

\* x << n, for 0 <= n < 16
ShiftLeft(x, n) ==
    LET p == 2 ^ n
    IN  Big(x.hi * p + (x.lo * p) \div Limb, (x.lo * p) % Limb)

----------------------------------------------------------------------------
(* The encoder: translate_ir_to_machine_code, one IR command at a time *)

OPCODES_with_nop == [load_const |-> 1, read |-> 2, write |-> 3, bswap |-> 4, nop |-> 5]

OPCODES == [load_const |-> 1, read |-> 2, write |-> 3, bswap |-> 4]

\* 0x1FFFFFFF: a register mask one bit too wide
MASK28_29bits == Big(8191, 65535)

\* 0xFFFFFFF
MASK28 == Big(4095, 65535)

\* 0xFFFFFFFF
MASK32 == Big(65535, 65535)

\* 0xFF
MASK8 == Big(0, 255)

\* dict.get(key, default); a dict is a function on its keys
DictGet(d, key, default) == IF key \in DOMAIN d THEN d[key] ELSE default

\* the value of ir_cmd.get('cmd') when the key is missing
None == "None"

\* the empty dict {}
EmptyDict == [k \in {} |-> Zero]

\* the tag shifted as far as the register: the opcode no longer fits the word
TaggedWord_shift8(reg, opcode) ==
    Or(ShiftLeft(And(reg, MASK28), 8), And(FromInt(opcode), MASK8))

\* (reg & 0xFFFFFFF) << 4 | (opcode & 0xFF)
TaggedWord(reg, opcode) ==
    Or(ShiftLeft(And(reg, MASK28), 4), And(FromInt(opcode), MASK8))

\* the 4 bytes of struct.pack('<I', w), defined for 0 <= w <= 0xFFFFFFFF
PackWord_bigendian(w) == <<w.hi \div 256, w.hi % 256, w.lo \div 256, w.lo % 256>>

PackWord(w) == <<w.lo % 256, w.lo \div 256, w.hi % 256, w.hi \div 256>>

\* struct.pack accepts a word only in 0 .. 2^32 - 1
FitsUnsigned32(w) == w.hi >= 0 /\ w.hi < Limb /\ w.lo >= 0 /\ w.lo < Limb

\* a second word packed as 'H': the block is 6 bytes long
StructPack_short(first_word, second_word) ==
    IF FitsUnsigned32(first_word) /\ FitsUnsigned32(second_word)
    THEN [raised |-> "none",
          bytes |-> PackWord(first_word) \o SubSeq(PackWord(second_word), 1, 2)]
    ELSE [raised |-> "struct.error", bytes |-> <<>>]

\* struct.pack('<II', first_word, second_word)
StructPack(first_word, second_word) ==
    IF FitsUnsigned32(first_word) /\ FitsUnsigned32(second_word)
    THEN [raised |-> "none", bytes |-> PackWord(first_word) \o PackWord(second_word)]
    ELSE [raised |-> "struct.error", bytes |-> <<>>]

\* the if/elif chain of the loop body: the two words of one command, or <<>>
\* when no branch matches the mnemonic
Layout(opcode_name, opcode, args) ==
    CASE opcode_name = "load_const" ->
            <<TaggedWord(DictGet(args, "dst", Zero), opcode),
              And(DictGet(args, "value", Zero), MASK32)>>
      [] opcode_name = "read" ->
            <<TaggedWord(DictGet(args, "dst", Zero), opcode),
              And(DictGet(args, "src", Zero), MASK32)>>
      [] opcode_name = "write" ->
            <<And(DictGet(args, "addr", Zero), MASK32),
              TaggedWord(DictGet(args, "src", Zero), opcode)>>
      [] opcode_name = "bswap" ->
            <<TaggedWord(DictGet(args, "dst", Zero), opcode), Zero>>
      [] OTHER -> <<>>

\* one iteration of the loop over ir_list: the bytes appended, or what is raised
EncodeCmd(ir_cmd) ==
    LET opcode_name == DictGet(ir_cmd, "cmd", None)
        args == DictGet(ir_cmd, "args", EmptyDict)
    IN  IF opcode_name \notin DOMAIN OPCODES
        THEN [raised |-> "unknown", bytes |-> <<>>]
        ELSE LET words == Layout(opcode_name, OPCODES[opcode_name], args)
             IN  IF words = <<>>
                 THEN [raised |-> "unimplemented", bytes |-> <<>>]
                 ELSE StructPack(words[1], words[2])

----------------------------------------------------------------------------
(* Inputs *)

\* a JSON object line {"cmd": name, "args": a}
Cmd(name, a) == [kind |-> "json", obj |-> [cmd |-> name, args |-> a]]

\* the lines an input file is made of: a blank line, a '#' comment, a line
\* that is not JSON, an object without 'cmd', and commands (the first is the
\* example {"cmd": "load_const", "args": {"dst": 3, "value": 42}}; "nop" is
\* in no opcode table; operands are negative, over-wide or missing)
Lines ==
    { [kind |-> "blank"], [kind |-> "comment"], [kind |-> "malformed"],
      [kind |-> "json", obj |-> [args |-> [dst |-> FromInt(1)]]],
      Cmd("load_const", [dst |-> FromInt(3), value |-> FromInt(42)]),
      Cmd("write", [addr |-> FromInt(-1), src |-> FromInt(536870911)]),
      Cmd("read", [src |-> Big(65536, 42)]),
      [kind |-> "json", obj |-> [cmd |-> "bswap"]],
      Cmd("nop", EmptyDict) }

\* operand values: small, negative, 29 bits wide (0x1FFFFFFF), the largest
\* 32-bit value, and 2^32 + 42
Operands ==
    { FromInt(3), FromInt(-1), FromInt(536870911), Big(65535, 65535), Big(65536, 42) }

\* the dicts over some of the keys in names, with values in Operands
Dicts(names) == UNION { [d -> Operands] : d \in SUBSET names }

\* the IR commands the encoder is checked on
Commands ==
    { [cmd |-> "load_const", args |-> a] : a \in Dicts({"dst", "value"}) }
    \cup { [cmd |-> "read", args |-> a] : a \in Dicts({"dst", "src"}) }
    \cup { [cmd |-> "write", args |-> a] : a \in Dicts({"addr", "src"}) }
    \cup { [cmd |-> "bswap", args |-> a] : a \in Dicts({"dst"}) }
    \cup { [cmd |-> "nop", args |-> EmptyDict], [cmd |-> "bswap"] }

SeqsUpTo(S, n) == UNION { [1..k -> S] : k \in 0..n }

NoFile == [exists |-> FALSE, data |-> <<>>]

\* an output file left by an earlier run
StaleFile == [exists |-> TRUE, data |-> <<170, 187>>]

----------------------------------------------------------------------------
(* assemble *)

Start(ls) ==
    /\ lines = ls
    /\ pos = 0
    /\ ir_list = <<>>
    /\ idx = 0
    /\ binary_data = <<>>
    /\ stdout = <<>>
    /\ err = "none"
    /\ pc = "read"
    /\ written = FALSE
    /\ file = file0
    /\ run = 1
    /\ first = [file |-> file0, stdout |-> <<>>, err |-> "none", lines |-> <<>>]

Init ==
    /\ input_exists \in BOOLEAN
    /\ writable \in BOOLEAN
    /\ test_mode \in BOOLEAN
    /\ file0 \in {NoFile, StaleFile}
    /\ \E ls \in SeqsUpTo(Lines, MaxLines) :
          /\ (~input_exists => ls = <<>>)
          /\ Start(ls)

\* the line at the read position
Line == lines[pos + 1]

\* not stripped_line or stripped_line.startswith('#')
IsSkipped(line) == line.kind \in {"blank", "comment"}

\* json.loads succeeds on the line
parse_asm_line_ok(line) == line.kind = "json"

\* open(input_file_path) raises FileNotFoundError
InputNotFound ==
    /\ pc = "read"
    /\ ~input_exists
    /\ stdout' = Append(stdout, <<"error_not_found", 0, <<>>>>)
    /\ err' = "not_found"
    /\ pc' = "done"
    /\ UNCHANGED <<lines, input_exists, writable, test_mode, file0, file, pos,
                   ir_list, idx, binary_data, written, run, first>>

\* a blank line or a comment: continue
SkipLine ==
    /\ pc = "read"
    /\ input_exists
    /\ pos < Len(lines)
    /\ IsSkipped(Line)
    /\ pos' = pos + 1
    /\ UNCHANGED <<lines, input_exists, writable, test_mode, file0, file,
                   ir_list, idx, binary_data, stdout, err, pc, written, run, first>>

\* the return forgotten: the error is printed and the loop goes on
MalformedLine_continue ==
    /\ pc = "read"
    /\ input_exists
    /\ pos < Len(lines)
    /\ ~IsSkipped(Line)
    /\ ~parse_asm_line_ok(Line)
    /\ stdout' = Append(stdout, <<"error_parse", pos + 1, <<>>>>)
    /\ err' = "malformed"
    /\ pos' = pos + 1
    /\ UNCHANGED <<lines, input_exists, writable, test_mode, file0, file, pc,
                   ir_list, idx, binary_data, written, run, first>>

\* parse_asm_line raises ValueError: the error is printed and assemble returns
MalformedLine ==
    /\ pc = "read"
    /\ input_exists
    /\ pos < Len(lines)
    /\ ~IsSkipped(Line)
    /\ ~parse_asm_line_ok(Line)
    /\ stdout' = Append(stdout, <<"error_parse", pos + 1, <<>>>>)
    /\ err' = "malformed"
    /\ pc' = "done"
    /\ UNCHANGED <<lines, input_exists, writable, test_mode, file0, file, pos,
                   ir_list, idx, binary_data, written, run, first>>

\* the record appended all the same
MissingCmd_appended ==
    /\ pc = "read"
    /\ input_exists
    /\ pos < Len(lines)
    /\ ~IsSkipped(Line)
    /\ parse_asm_line_ok(Line)
    /\ "cmd" \notin DOMAIN Line.obj
    /\ stdout' = Append(stdout, <<"warning_no_cmd", pos + 1, <<>>>>)
    /\ ir_list' = Append(ir_list, Line.obj)
    /\ pos' = pos + 1
    /\ UNCHANGED <<lines, input_exists, writable, test_mode, file0, file,
                   idx, binary_data, err, pc, written, run, first>>

\* 'cmd' not in ir_cmd: a warning is printed and the line is passed over
MissingCmd ==
    /\ pc = "read"
    /\ input_exists
    /\ pos < Len(lines)
    /\ ~IsSkipped(Line)
    /\ parse_asm_line_ok(Line)
    /\ "cmd" \notin DOMAIN Line.obj
    /\ stdout' = Append(stdout, <<"warning_no_cmd", pos + 1, <<>>>>)
    /\ pos' = pos + 1
    /\ UNCHANGED <<lines, input_exists, writable, test_mode, file0, file,
                   ir_list, idx, binary_data, err, pc, written, run, first>>

\* ir_list.append(ir_cmd)
AppendCmd ==
    /\ pc = "read"
    /\ input_exists
    /\ pos < Len(lines)
    /\ ~IsSkipped(Line)
    /\ parse_asm_line_ok(Line)
    /\ "cmd" \in DOMAIN Line.obj
    /\ ir_list' = Append(ir_list, Line.obj)
    /\ pos' = pos + 1
    /\ UNCHANGED <<lines, input_exists, writable, test_mode, file0, file,
                   idx, binary_data, stdout, err, pc, written, run, first>>

\* the end of the input: translate_ir_to_machine_code is called
CallTranslate ==
    /\ pc = "read"
    /\ input_exists
    /\ pos = Len(lines)
    /\ binary_data' = <<>>
    /\ idx' = 0
    /\ pc' = "translate"
    /\ UNCHANGED <<lines, input_exists, writable, test_mode, file0, file, pos,
                   ir_list, stdout, err, written, run, first>>

----------------------------------------------------------------------------
(* translate_ir_to_machine_code, as called by assemble *)

\* the next IR command is encoded and its 8 bytes are appended to the buffer
EncodeNext ==
    /\ pc = "translate"
    /\ idx < Len(ir_list)
    /\ EncodeCmd(ir_list[idx + 1]).raised = "none"
    /\ binary_data' = binary_data \o EncodeCmd(ir_list[idx + 1]).bytes
    /\ idx' = idx + 1
    /\ UNCHANGED <<lines, input_exists, writable, test_mode, file0, file, pos,
                   ir_list, stdout, err, pc, written, run, first>>

\* what assemble does with an exception of the loop body: a ValueError is
\* caught, printed and ends the run; any other exception is not caught
Raised(kind) ==
    /\ err' = kind
    /\ IF kind \in {"unknown", "unimplemented"}
       THEN /\ stdout' = Append(stdout, <<"error_translate", 0, <<>>>>)
            /\ pc' = "done"
       ELSE /\ stdout' = stdout
            /\ pc' = "crashed"

\* the bytes encoded so far flushed to the output file before the error leaves
TranslateRaises_flush ==
    /\ pc = "translate"
    /\ idx < Len(ir_list)
    /\ EncodeCmd(ir_list[idx + 1]).raised # "none"
    /\ Raised(EncodeCmd(ir_list[idx + 1]).raised)
    /\ file' = IF writable THEN [exists |-> TRUE, data |-> binary_data] ELSE file
    /\ UNCHANGED <<lines, input_exists, writable, test_mode, file0, pos,
                   ir_list, idx, binary_data, written, run, first>>

\* the loop body raises: nothing has been opened or written
TranslateRaises ==
    /\ pc = "translate"
    /\ idx < Len(ir_list)
    /\ EncodeCmd(ir_list[idx + 1]).raised # "none"
    /\ Raised(EncodeCmd(ir_list[idx + 1]).raised)
    /\ UNCHANGED <<lines, input_exists, writable, test_mode, file0, file, pos,
                   ir_list, idx, binary_data, written, run, first>>

\* after the loop: the buffer is written in one go, translate returns and
\* assemble prints the number of commands
WriteFile ==
    /\ pc = "translate"
    /\ idx = Len(ir_list)
    /\ writable
    /\ file' = [exists |-> TRUE, data |-> binary_data]
    /\ written' = TRUE
    /\ stdout' = Append(stdout, <<"assembled", Len(ir_list), <<>>>>)
    /\ pc' = IF test_mode THEN "dump" ELSE "done"
    /\ UNCHANGED <<lines, input_exists, writable, test_mode, file0, pos,
                   ir_list, idx, binary_data, err, run, first>>

\* the return after the error forgotten: the run goes on to the dump
WriteFails_continue ==
    /\ pc = "translate"
    /\ idx = Len(ir_list)
    /\ ~writable
    /\ err' = "io"
    /\ stdout' = Append(stdout, <<"error_translate", 0, <<>>>>)
    /\ pc' = IF test_mode THEN "dump" ELSE "done"
    /\ UNCHANGED <<lines, input_exists, writable, test_mode, file0, file, pos,
                   ir_list, idx, binary_data, written, run, first>>

\* open(output_file_path, 'wb') fails: IOError, caught and printed by assemble
WriteFails ==
    /\ pc = "translate"
    /\ idx = Len(ir_list)
    /\ ~writable
    /\ err' = "io"
    /\ stdout' = Append(stdout, <<"error_translate", 0, <<>>>>)
    /\ pc' = "done"
    /\ UNCHANGED <<lines, input_exists, writable, test_mode, file0, file, pos,
                   ir_list, idx, binary_data, written, run, first>>

----------------------------------------------------------------------------
(* display_binary_file *)

HexDigits == <<"0", "1", "2", "3", "4", "5", "6", "7",
               "8", "9", "A", "B", "C", "D", "E", "F">>

\* f"0x{byte:02X}"
HexToken(byte) == <<"0x", HexDigits[(byte \div 16) + 1], HexDigits[(byte % 16) + 1]>>

\* what display_binary_file prints for the file at the output path
Display(f) ==
    IF ~f.exists THEN <<"error_dump_not_found", 0, <<>>>>
    ELSE IF f.data = <<>> THEN <<"dump_empty", 0, <<>>>>
    ELSE <<"dump_hex", Len(f.data), [i \in 1..Len(f.data) |-> HexToken(f.data[i])]>>

\* test mode: the written file is read back and printed between two markers
DisplayBinaryFile ==
    /\ pc = "dump"
    /\ stdout' = stdout \o <<<<"dump_begin", 0, <<>>>>, Display(file),
                             <<"dump_end", 0, <<>>>>>>
    /\ pc' = "done"
    /\ UNCHANGED <<lines, input_exists, writable, test_mode, file0, file, pos,
                   ir_list, idx, binary_data, err, written, run, first>>

----------------------------------------------------------------------------
(* Specifications *)

Next ==
    \/ InputNotFound
    \/ SkipLine
    \/ MalformedLine
    \/ MissingCmd
    \/ AppendCmd
    \/ CallTranslate
    \/ EncodeNext
    \/ TranslateRaises
    \/ WriteFile
    \/ WriteFails
    \/ DisplayBinaryFile

\* assemble, on every input file of at most MaxLines lines
Spec == Init /\ [][Next]_vars

\* the state of assemble when it calls translate_ir_to_machine_code, for the
\* input file that holds the commands cs, one per line
AtTranslate(cs) ==
    /\ lines = [i \in 1..Len(cs) |-> [kind |-> "json", obj |-> cs[i]]]
    /\ pos = Len(cs)
    /\ ir_list = cs
    /\ idx = 0
    /\ binary_data = <<>>
    /\ stdout = <<>>
    /\ err = "none"
    /\ pc = "translate"
    /\ written = FALSE
    /\ file = file0
    /\ run = 1
    /\ first = [file |-> file0, stdout |-> <<>>, err |-> "none", lines |-> <<>>]

InitEnc ==
    /\ input_exists = TRUE
    /\ writable \in BOOLEAN
    /\ test_mode = FALSE
    /\ file0 = NoFile
    /\ \E cs \in SeqsUpTo(Commands, MaxIR) : AtTranslate(cs)

NextEnc ==
    \/ EncodeNext
    \/ TranslateRaises
    \/ WriteFile
    \/ WriteFails

\* the encoder, on every IR list of at most MaxIR commands over Operands
SpecEnc == InitEnc /\ [][NextEnc]_vars

\* the input without the lines that parse to an object lacking 'cmd'
HasNoCmd(line) == line.kind = "json" /\ "cmd" \notin DOMAIN line.obj

WithoutNoCmd(ls) == SelectSeq(ls, LAMBDA l : ~HasNoCmd(l))

\* a finished run is followed by a second run of assemble, from the same
\* output file, on the input with the 'cmd'-less lines removed
Rerun ==
    /\ run = 1
    /\ pc \in {"done", "crashed"}
    /\ WithoutNoCmd(lines) # lines
    /\ first' = [file |-> file, stdout |-> stdout, err |-> err, lines |-> lines]
    /\ run' = 2
    /\ lines' = WithoutNoCmd(lines)
    /\ pos' = 0
    /\ ir_list' = <<>>
    /\ idx' = 0
    /\ binary_data' = <<>>
    /\ stdout' = <<>>
    /\ err' = "none"
    /\ pc' = "read"
    /\ written' = FALSE
    /\ file' = file0
    /\ UNCHANGED <<input_exists, writable, test_mode, file0>>

NextTwin == Next \/ Rerun

\* assemble run twice: on an input, then on the input without its 'cmd'-less lines
SpecTwin == Init /\ [][NextTwin]_vars

----------------------------------------------------------------------------
(* Properties *)

Mnemonics == {"load_const", "read", "write", "bswap"}

Mnemonic(c) == IF "cmd" \in DOMAIN c THEN c.cmd ELSE "None"

\* the operand named key of command c, 0 when it is not supplied
Operand(c, key) ==
    IF "args" \in DOMAIN c /\ key \in DOMAIN c.args THEN c.args[key] ELSE Big(0, 0)

\* the i-th 8-byte block of a byte sequence
Block(data, i) == SubSeq(data, 8 * (i - 1) + 1, 8 * i)

\* the commands of an input file: its JSON lines that have 'cmd', in order
CommandsOf(ls) == SelectSeq(ls, LAMBDA l : l.kind = "json" /\ "cmd" \in DOMAIN l.obj)

\* the entries printed with a given tag
Printed(out, tag) == SelectSeq(out, LAMBDA m : m[1] = tag)

Final == pc \in {"done", "crashed"}

\* C1: an IR list that holds an unknown mnemonic never gets anything written:
\* the output file stays as it was before the run, it is never opened, and the
\* run ends on the unknown-command error without reaching the dump.
C1_UnknownMnemonicWritesNothing ==
    (\E i \in 1..Len(ir_list) : Mnemonic(ir_list[i]) \notin Mnemonics)
        => /\ file = file0
           /\ ~written
           /\ pc # "dump"
           /\ Printed(stdout, "assembled") = <<>>
           /\ (err = "unknown" => pc = "done")

\* an unknown mnemonic in the middle of three commands: the first was encoded,
\* the run stopped, and the stale output file is untouched though writable
C1_Witness ==
    /\ err = "unknown"
    /\ pc = "done"
    /\ Len(ir_list) = 3
    /\ idx = 1
    /\ Len(binary_data) = 8
    /\ writable
    /\ file0 = StaleFile

\* C2: the encoder's buffer is always 8 bytes per command encoded so far, and a
\* written output file is 8 bytes per command of the input (the lines neither
\* skipped nor without 'cmd'), which is also the count the run reports.
C2_OutputLength ==
    /\ Len(binary_data) = 8 * idx
    /\ written =>
          /\ Len(file.data) = 8 * Len(CommandsOf(lines))
          /\ Printed(stdout, "assembled") = <<<<"assembled", Len(CommandsOf(lines)), <<>>>>>>

\* a file of three lines, one of them passed over, written as 16 bytes
C2_Witness ==
    /\ written
    /\ Len(lines) = 3
    /\ Len(file.data) = 16

\* the little-endian bytes of ((v mod 2^28) * 16 + opcode), by arithmetic
TaggedBytes(v, opcode) ==
    LET upper == (v.hi % 4096) * 16 + (v.lo \div 4096)
        lower == (v.lo % 4096) * 16 + opcode
    IN  <<lower % 256, lower \div 256, upper % 256, upper \div 256>>

\* the little-endian bytes of (v mod 2^32), by arithmetic
PlainBytes(v) ==
    <<v.lo % 256, v.lo \div 256, (v.hi % 65536) % 256, (v.hi % 65536) \div 256>>

\* the 8 bytes the layout table gives for command c
LayoutBytes(c) ==
    CASE Mnemonic(c) = "load_const" ->
            TaggedBytes(Operand(c, "dst"), 1) \o PlainBytes(Operand(c, "value"))
      [] Mnemonic(c) = "read" ->
            TaggedBytes(Operand(c, "dst"), 2) \o PlainBytes(Operand(c, "src"))
      [] Mnemonic(c) = "write" ->
            PlainBytes(Operand(c, "addr")) \o TaggedBytes(Operand(c, "src"), 3)
      [] Mnemonic(c) = "bswap" ->
            TaggedBytes(Operand(c, "dst"), 4) \o <<0, 0, 0, 0>>
      [] OTHER -> <<>>

AllKnown(cs) == \A i \in 1..Len(cs) : Mnemonic(cs[i]) \in Mnemonics

\* C3: when every mnemonic of the input is in the opcode table, encoding does
\* not fail, and the bytes written are exactly one 8-byte block per command,
\* in input order, each block being the two words of the layout table least
\* significant byte first, with 0 for an operand not supplied.
C3_LayoutInOrder ==
    LET cs == CommandsOf(lines)
    IN  /\ AllKnown(ir_list) => err \notin {"unknown", "unimplemented", "struct.error"}
        /\ \A i \in 1..idx : Block(binary_data, i) = LayoutBytes(ir_list[i])
        /\ written =>
              /\ Len(file.data) = 8 * Len(cs)
              /\ \A i \in 1..Len(cs) : Block(file.data, i) = LayoutBytes(cs[i].obj)

\* three commands written: the write with addr = -1 and src = 0x1FFFFFFF, then
\* the bswap without arguments, then the load_const of the example
C3_Witness ==
    /\ written
    /\ Len(ir_list) = 3
    /\ Mnemonic(ir_list[1]) = "write"
    /\ Mnemonic(ir_list[2]) = "bswap"
    /\ Mnemonic(ir_list[3]) = "load_const"
    /\ file.data = <<255, 255, 255, 255, 243, 255, 255, 255,
                     4, 0, 0, 0, 0, 0, 0, 0,
                     49, 0, 0, 0, 42, 0, 0, 0>>

\* v with the bits above the low 28 (the low 32) dropped, by arithmetic
Low28(v) == Big(v.hi % 4096, v.lo)

Low32(v) == Big(v.hi % 65536, v.lo)

\* the operands of each mnemonic that go into a 28-bit register field
RegisterKeys(name) == IF name = "write" THEN {"src"} ELSE {"dst"}

\* command c with every operand it supplies replaced by its masked value
Truncated(c) ==
    IF "args" \notin DOMAIN c THEN c
    ELSE [c EXCEPT !.args =
            [k \in DOMAIN c.args |->
                IF k \in RegisterKeys(Mnemonic(c)) THEN Low28(c.args[k])
                ELSE Low32(c.args[k])]]

\* C4: an operand wider than its field is never rejected, and a command
\* encodes to the same 8 bytes as the command whose register operand is
\* replaced by d & 0xFFFFFFF and whose 32-bit operand by v & 0xFFFFFFFF.
C4_MaskingTruncation ==
    /\ err # "struct.error"
    /\ pc # "crashed"
    /\ \A i \in 1..idx :
          Block(binary_data, i) = EncodeCmd(Truncated(ir_list[i])).bytes
    /\ (Final /\ idx < Len(ir_list)) =>
          /\ err = "unknown"
          /\ Mnemonic(ir_list[idx + 1]) \notin Mnemonics

\* a load_const with dst = 0x1FFFFFFF (29 bits) and value = 2^32 + 42 was
\* encoded and written as dst = 0xFFFFFFF, value = 42
C4_Witness ==
    /\ written
    /\ Len(ir_list) >= 1
    /\ ir_list[1] = [cmd |-> "load_const",
                     args |-> [dst |-> FromInt(536870911), value |-> Big(65536, 42)]]
    /\ Block(file.data, 1) = <<241, 255, 255, 255, 42, 0, 0, 0>>

\* the index in an 8-byte block of the low byte of the word that carries the opcode
TagByte(name) == IF name = "write" THEN 5 ELSE 1

\* C7 (as claimed): in every encoded instruction the low 8 bits of the
\* opcode-bearing word equal the mnemonic's opcode.
C7_OpcodeInLow8Bits ==
    \A i \in 1..idx :
        Block(binary_data, i)[TagByte(Mnemonic(ir_list[i]))] = OPCODES[Mnemonic(ir_list[i])]

\* C10: for every known mnemonic and every operand value, both words of the
\* pair lie in 0 .. 2^32 - 1, so packing never fails: such a command is never
\* the one the run stops at.
C10_WordsFit32Bits ==
    /\ err # "struct.error"
    /\ pc # "crashed"
    /\ \A i \in 1..Len(ir_list) :
          Mnemonic(ir_list[i]) \in Mnemonics =>
             LET c == ir_list[i]
                 w == Layout(c.cmd, OPCODES[c.cmd], DictGet(c, "args", EmptyDict))
             IN  /\ Len(w) = 2
                 /\ \A j \in 1..2 : /\ w[j].hi \in 0..65535
                                    /\ w[j].lo \in 0..65535
    /\ (Final /\ idx < Len(ir_list)) => Mnemonic(ir_list[idx + 1]) \notin Mnemonics

\* a write with addr = -1 and src = -1 was encoded: both words are 0xFFFFFFFF
\* and 0xFFFFFFF3
C10_Witness ==
    /\ idx = 1
    /\ ir_list[1] = [cmd |-> "write", args |-> [addr |-> FromInt(-1), src |-> FromInt(-1)]]
    /\ binary_data = <<255, 255, 255, 255, 243, 255, 255, 255>>

\* the first malformed line of the input, 0 when there is none
FirstMalformed ==
    IF \E k \in 1..Len(lines) : lines[k].kind = "malformed"
    THEN CHOOSE k \in 1..Len(lines) :
            /\ lines[k].kind = "malformed"
            /\ \A j \in 1..(k - 1) : lines[j].kind # "malformed"
    ELSE 0

\* C5: when the input has a malformed line, the run never reads past the first
\* such line, never calls the encoder, never touches the output file, and ends
\* at that line with the parse error, whatever was parsed before it.
C5_MalformedLineIsFatal ==
    FirstMalformed > 0 =>
        /\ pos < FirstMalformed
        /\ pc \in {"read", "done"}
        /\ idx = 0
        /\ binary_data = <<>>
        /\ file = file0
        /\ ~written
        /\ Printed(stdout, "assembled") = <<>>
        /\ (pc = "done" <=> err = "malformed")
        /\ (pc = "done" => pos = FirstMalformed - 1)

\* a malformed second line of three: one command was parsed before it, the
\* third line was not read, the run is over
C5_Witness ==
    /\ err = "malformed"
    /\ pc = "done"
    /\ Len(lines) = 3
    /\ pos = 1
    /\ Len(ir_list) = 1
    /\ writable
    /\ file0 = StaleFile

\* C6: the run on an input and the run on the same input without its
\* 'cmd'-less lines end with the same output file, the same reported count and
\* the same failure, if any.
C6_MissingCmdIsExcluded ==
    (run = 2 /\ Final) =>
        /\ file = first.file
        /\ Printed(stdout, "assembled") = Printed(first.stdout, "assembled")
        /\ err = first.err

\* an input whose first line lacks 'cmd', followed by two commands: both runs
\* wrote the same 16 bytes and reported 2
C6_Witness ==
    /\ run = 2
    /\ Final
    /\ written
    /\ Len(first.lines) = 3
    /\ HasNoCmd(first.lines[1])
    /\ Len(file.data) = 16
    /\ Printed(first.stdout, "assembled") = <<<<"assembled", 2, <<>>>>>>

DumpTags == {"dump_hex", "dump_empty", "error_dump_not_found"}

\* C8: the dump happens only in test mode, only after this run has written
\* the output file and without any failure, and what it prints is the content
\* of the file at the output path.
C8_DumpOnlyAfterWrite ==
    /\ pc = "dump" => (test_mode /\ written /\ err = "none")
    /\ \A i \in 1..Len(stdout) :
          /\ stdout[i][1] = "dump_begin" => (test_mode /\ written /\ err = "none")
          /\ stdout[i][1] \in DumpTags =>
                /\ file.exists
                /\ stdout[i] = Display(file)
    /\ err # "none" => Printed(stdout, "dump_begin") = <<>>

\* a test-mode run that wrote 16 bytes and dumped them
C8_Witness ==
    /\ pc = "done"
    /\ test_mode
    /\ written
    /\ Len(Printed(stdout, "dump_hex")) = 1
    /\ Printed(stdout, "dump_hex")[1][2] = 16

\* C9: encoding never fails with the unimplemented-command error (nor any
\* other than the unknown-command error): once translation has begun, either
\* the run stopped at an unknown mnemonic or every command so far was encoded.
C9_NoUnimplementedOpcode ==
    /\ err \notin {"unimplemented", "struct.error"}
    /\ pc # "crashed"
    /\ (pc = "done" /\ err \in {"none", "io"}) => idx = Len(ir_list)
    /\ err = "unknown" =>
          /\ idx < Len(ir_list)
          /\ Mnemonic(ir_list[idx + 1]) \notin Mnemonics

\* a run stopped by the unknown-command error after one command was encoded
C9_Witness ==
    /\ err = "unknown"
    /\ idx = 1
    /\ Mnemonic(ir_list[2]) = "nop"

====
